---------------------------- MODULE Spec2Model ----------------------------
(***************************************************************************)
(* JournalEntryScreen: the create/edit form of a journal entry (date,      *)
(* title, body, tags), its load-on-entry effect, its save handler and the  *)
(* tag list handlers.                                                      *)
(*                                                                         *)
(* JavaScript strings are modelled as sequences of one-character strings,  *)
(* so that trim, includes, JSON.parse and toISOString are computed and not *)
(* assumed.  A Date is its number of milliseconds since the epoch.         *)
(***************************************************************************)
EXTENDS Integers, Sequences, FiniteSets, TLC

VARIABLES
    entryId,             \* route.params?.id ?? null
    date,                \* useState(new Date())
    title,               \* useState('')
    body,                \* useState('')
    tags,                \* useState([])
    tagModalVisible,     \* useState(false)
    showDatePicker,      \* useState(false)
    loading,             \* useState(true)
    phase,               \* "constructed" (first render done, effects not yet run) or "mounted"
    headerRight,         \* the draft values captured by the onSave installed in the header
    readState,           \* readJournalEntry: "none", "pending", "done", "failed"
    saves,               \* one record per invocation of onSave: the draft on screen when
                         \* the save icon was pressed, the alert shown, whether it navigated
    calls,               \* one record per updateJournalEntry / createJournalEntry call
    edits,               \* number of user edits of the draft so far
    lastTagCall,         \* the addTag / deleteTag call of the last step, with the tags it found
    alert,               \* message shown by alert() in the last step, or "none"
    consoleError,        \* whether the last step called console.error
    unhandledRejection   \* whether the last step rejected a promise nobody handles

vars == <<entryId, date, title, body, tags, tagModalVisible, showDatePicker,
          loading, phase, headerRight, readState, saves, calls, edits,
          lastTagCall, alert, consoleError, unhandledRejection>>

draftVars == <<date, title, body, tags>>

----------------------------------------------------------------------------
(* Bounds *)

MaxSaves == 2

MaxEdits == 2

MaxTags == 3

MaxLen == 3

----------------------------------------------------------------------------
(* Strings *)

NULL == "null"

\* an optional value (null or undefined when absent): a sequence of length 0 or 1
None == <<>>

Some(x) == <<x>>

Opt(S) == {None} \cup {Some(x) : x \in S}

Str(n) == UNION {[1..k -> {" ", "x"}] : k \in 0..n}

\* String.prototype.trim, for strings whose only white space is the blank
RECURSIVE trimStart(_)
trimStart(s) ==
    IF s = <<>> THEN <<>>
    ELSE IF Head(s) = " " THEN trimStart(Tail(s))
    ELSE s

RECURSIVE trimEnd(_)
trimEnd(s) ==
    IF s = <<>> THEN <<>>
    ELSE IF s[Len(s)] = " " THEN trimEnd(SubSeq(s, 1, Len(s) - 1))
    ELSE s

trim(s) == trimEnd(trimStart(s))

\* Array.prototype.includes on an array of strings
includes(arr, v) == \E i \in 1..Len(arr) : arr[i] = v

\* Array.prototype.filter(t => t !== tag)
RECURSIVE filterNot(_, _)
filterNot(arr, v) ==
    IF arr = <<>> THEN <<>>
    ELSE IF Head(arr) # v THEN <<Head(arr)>> \o filterNot(Tail(arr), v)
    ELSE filterNot(Tail(arr), v)

----------------------------------------------------------------------------
(* JSON.parse of an array of strings without escapes: the text is scanned  *)
(* left to right; a quote opens or closes a string, characters inside a    *)
(* string are collected, everything outside a string is punctuation.       *)

RECURSIVE parseScan(_, _, _, _)
parseScan(text, inString, cur, acc) ==
    IF text = <<>> THEN acc
    ELSE LET c == Head(text) IN
         IF c = "\""
         THEN IF inString
              THEN parseScan(Tail(text), FALSE, <<>>, Append(acc, cur))
              ELSE parseScan(Tail(text), TRUE, <<>>, acc)
         ELSE IF inString
              THEN parseScan(Tail(text), TRUE, Append(cur, c), acc)
              ELSE parseScan(Tail(text), FALSE, cur, acc)

JSONparse(text) == parseScan(text, FALSE, <<>>, <<>>)

----------------------------------------------------------------------------
(* Dates: Date.prototype.toISOString and new Date(isoString), for dates in *)
(* the first minute of the epoch.                                          *)

Digits == <<"0", "1", "2", "3", "4", "5", "6", "7", "8", "9">>

Digit(n) == Digits[n + 1]

DigitValue(c) == CHOOSE n \in 0..9 : Digits[n + 1] = c

ISOPrefix == <<"1", "9", "7", "0", "-", "0", "1", "-", "0", "1", "T",
               "0", "0", ":", "0", "0", ":">>

toISOString(d) ==
    LET sec == d \div 1000
        ms  == d % 1000
    IN  ISOPrefix
          \o <<Digit(sec \div 10), Digit(sec % 10), ".">>
          \o <<Digit(ms \div 100), Digit((ms \div 10) % 10), Digit(ms % 10), "Z">>

NewDate(iso) ==
    LET n == Len(ISOPrefix)
    IN  (DigitValue(iso[n + 1]) * 10 + DigitValue(iso[n + 2])) * 1000
          + DigitValue(iso[n + 4]) * 100
          + DigitValue(iso[n + 5]) * 10
          + DigitValue(iso[n + 6])

----------------------------------------------------------------------------
(* Inputs *)

EntryIds == {"e7"}

\* new Date() when the screen is constructed
Now == {0}

\* the dates the date picker can return
Dates == {1500}

Titles == {<<"t">>}

Bodies == {<<>>, <<" ", " ">>, <<" ", "x">>}

\* what the tag overlay passes to addTag / deleteTag in the editor runs
EditorTagInputs == {<<"x">>, <<" ", "x">>}

\* what it passes in the tag list runs: every string of at most MaxLen characters
TagInputs == Str(MaxLen)

Quote(s) == <<"\"">> \o s \o <<"\"">>

\* the records readJournalEntry can resolve to
StoredEntries ==
    { [date  |-> toISOString(1500), title |-> <<"t">>, body |-> <<"x">>,
       tags  |-> <<"[">> \o Quote(<<"x">>) \o <<",">> \o Quote(<<"x", "x">>) \o <<"]">>],
      [date  |-> toISOString(0), title |-> <<>>, body |-> <<"x", " ">>,
       tags  |-> <<"[", "]">>] }

\* duplicate-free tag lists the tag list runs start from
InitialTagLists == {<<>>, <<<<"x">>>>, <<<<"x", "x">>, <<"x">>>>}

----------------------------------------------------------------------------
(* State *)

Draft == [date |-> date, title |-> title, body |-> body, tags |-> tags]

\* a dependency array that leaves tags out
DepsWithoutTags(d) == <<d.body, d.title, d.date>>

\* the dependency array of the header effect: [navigation, onSave, body, title, tags, date]
Deps(d) == <<d.body, d.title, d.tags, d.date>>

\* the header effect: when a dependency changed in this render, the header gets
\* the onSave of this render, which captures this render's values.  (onSave is
\* declared below the dependency array that names it; in the React Native build
\* const is compiled to a hoisted var, so the array holds undefined there and the
\* effect is driven by body, title, tags and date.)
HeaderEffect(h, d) == IF Deps(d) # Deps(Draft) THEN d ELSE h

\* a render with draft values d, followed by its effects
Render(d) ==
    /\ date' = d.date
    /\ title' = d.title
    /\ body' = d.body
    /\ tags' = d.tags
    /\ headerRight' = HeaderEffect(headerRight, d)

Quiet ==
    /\ lastTagCall' = None
    /\ alert' = "none"
    /\ consoleError' = FALSE
    /\ unhandledRejection' = FALSE

\* navigation.navigate('JournalScreen') has been called
Navigated == \E s \in 1..Len(saves) : saves[s].navigated

\* the form is on screen
FormShown == phase = "mounted" /\ ~loading /\ ~Navigated

Init ==
    /\ entryId \in {NULL} \cup EntryIds
    /\ date \in Now
    /\ title = <<>>
    /\ body = <<>>
    /\ tags = <<>>
    /\ tagModalVisible = FALSE
    /\ showDatePicker = FALSE
    /\ loading = TRUE
    /\ phase = "constructed"
    /\ headerRight = Draft
    /\ readState = "none"
    /\ saves = <<>>
    /\ calls = <<>>
    /\ edits = 0
    /\ lastTagCall = None
    /\ alert = "none"
    /\ consoleError = FALSE
    /\ unhandledRejection = FALSE

----------------------------------------------------------------------------
(* Effects after the first render *)

Mount ==
    /\ phase = "constructed"
    /\ phase' = "mounted"
    /\ headerRight' = Draft
    /\ readState' = IF entryId # NULL THEN "pending" ELSE readState
    /\ loading' = FALSE
    /\ Quiet
    /\ UNCHANGED <<entryId, draftVars, tagModalVisible, showDatePicker, saves, calls, edits>>

\* the draft a stored record is mapped to
LoadedDraft(entry) ==
    [date  |-> NewDate(entry.date),
     title |-> entry.title,
     body  |-> entry.body,
     tags  |-> JSONparse(entry.tags)]

ReadResolve(entry) ==
    /\ readState = "pending"
    /\ readState' = "done"
    /\ IF entry # None
       THEN Render(LoadedDraft(entry[1]))
       ELSE UNCHANGED <<draftVars, headerRight>>
    /\ Quiet
    /\ UNCHANGED <<entryId, tagModalVisible, showDatePicker, loading, phase, saves, calls, edits>>

ReadReject ==
    /\ readState = "pending"
    /\ readState' = "failed"
    /\ lastTagCall' = None
    /\ alert' = "none"
    /\ consoleError' = FALSE
    /\ unhandledRejection' = TRUE
    /\ UNCHANGED <<entryId, draftVars, headerRight, tagModalVisible, showDatePicker,
                   loading, phase, saves, calls, edits>>

----------------------------------------------------------------------------
(* Form handlers *)

SetTitle(text) ==
    /\ FormShown
    /\ Render([Draft EXCEPT !.title = text])
    /\ Quiet
    /\ UNCHANGED <<entryId, tagModalVisible, showDatePicker, loading, phase,
                   readState, saves, calls>>

SetBody(text) ==
    /\ FormShown
    /\ Render([Draft EXCEPT !.body = text])
    /\ Quiet
    /\ UNCHANGED <<entryId, tagModalVisible, showDatePicker, loading, phase,
                   readState, saves, calls>>

OpenDatePicker ==
    /\ FormShown
    /\ ~showDatePicker
    /\ showDatePicker' = TRUE
    /\ Quiet
    /\ UNCHANGED <<entryId, draftVars, headerRight, tagModalVisible, loading, phase,
                   readState, saves, calls, edits>>

\* DateTimePicker onChange; selectedDate is undefined when the picker is dismissed
DateChange(selectedDate) ==
    /\ FormShown
    /\ showDatePicker
    /\ showDatePicker' = FALSE
    /\ IF selectedDate # None
       THEN Render([Draft EXCEPT !.date = selectedDate[1]])
       ELSE UNCHANGED <<draftVars, headerRight>>
    /\ Quiet
    /\ UNCHANGED <<entryId, tagModalVisible, loading, phase, readState, saves, calls>>

OpenTagModal ==
    /\ FormShown
    /\ ~tagModalVisible
    /\ tagModalVisible' = TRUE
    /\ Quiet
    /\ UNCHANGED <<entryId, draftVars, headerRight, showDatePicker, loading, phase,
                   readState, saves, calls, edits>>

CloseTagModal ==
    /\ FormShown
    /\ tagModalVisible
    /\ tagModalVisible' = FALSE
    /\ Quiet
    /\ UNCHANGED <<entryId, draftVars, headerRight, showDatePicker, loading, phase,
                   readState, saves, calls, edits>>

\* an updater that appends the value as received
addTagUpdaterUntrimmed(prevTags, tag) ==
    IF ~includes(prevTags, tag) THEN Append(prevTags, tag) ELSE prevTags

\* the updater addTag passes to setTags
addTagUpdater(prevTags, tag) ==
    IF ~includes(prevTags, tag) THEN Append(prevTags, trim(tag)) ELSE prevTags

addTag(tag) ==
    /\ FormShown
    /\ tagModalVisible
    /\ Len(tags) < MaxTags
    /\ IF trim(tag) # <<>>
       THEN /\ Render([Draft EXCEPT !.tags = addTagUpdater(tags, tag)])
            /\ alert' = IF includes(tags, tag) THEN "Tag already exists" ELSE "none"
       ELSE /\ UNCHANGED <<draftVars, headerRight>>
            /\ alert' = "none"
    /\ tagModalVisible' = FALSE
    /\ lastTagCall' = Some([op |-> "addTag", arg |-> tag, prevTags |-> tags])
    /\ consoleError' = FALSE
    /\ unhandledRejection' = FALSE
    /\ UNCHANGED <<entryId, showDatePicker, loading, phase, readState, saves, calls>>

deleteTag(tag) ==
    /\ FormShown
    /\ tagModalVisible
    /\ Render([Draft EXCEPT !.tags = filterNot(tags, tag)])
    /\ lastTagCall' = Some([op |-> "deleteTag", arg |-> tag, prevTags |-> tags])
    /\ alert' = "none"
    /\ consoleError' = FALSE
    /\ unhandledRejection' = FALSE
    /\ UNCHANGED <<entryId, tagModalVisible, showDatePicker, loading, phase,
                   readState, saves, calls>>

----------------------------------------------------------------------------
(* onSave *)

\* a body check without trim
IsEmpty(text) == text = <<>>

\* body.trim() === ''
IsBlank(text) == trim(text) = <<>>

\* an onSave that checks the body before it looks at the identifier
onSaveCallsCheckFirst(id, d) ==
    IF IsBlank(d.body)
    THEN << >>
    ELSE IF id # NULL
         THEN << [op |-> "update",
                  args |-> [id |-> id, date |-> toISOString(d.date), title |-> d.title,
                            body |-> d.body, tags |-> d.tags]] >>
         ELSE << [op |-> "create",
                  args |-> [date |-> toISOString(d.date), title |-> d.title,
                            body |-> d.body, tags |-> d.tags]] >>

\* the storage calls one invocation of onSave issues, with the values d it captured
onSaveCalls(id, d) ==
    IF id # NULL
    THEN << [op |-> "update",
             args |-> [id |-> id, date |-> toISOString(d.date), title |-> d.title,
                       body |-> d.body, tags |-> d.tags]] >>
    ELSE IF IsBlank(d.body)
         THEN << >>
         ELSE << [op |-> "create",
                  args |-> [date |-> toISOString(d.date), title |-> d.title,
                            body |-> d.body, tags |-> d.tags]] >>

\* the alert one invocation of onSave shows
onSaveAlert(id, d) ==
    IF id = NULL /\ IsBlank(d.body) THEN "Please enter a journal entry" ELSE "none"

\* the save icon of the header is pressed: onSave runs up to its await or return
onSave ==
    /\ phase = "mounted"
    /\ ~Navigated
    /\ Len(saves) < MaxSaves
    /\ saves' = Append(saves, [draft     |-> Draft,
                                alert     |-> onSaveAlert(entryId, headerRight),
                                navigated |-> FALSE])
    /\ calls' = calls \o
         [i \in 1..Len(onSaveCalls(entryId, headerRight)) |->
            [op     |-> onSaveCalls(entryId, headerRight)[i].op,
             args   |-> onSaveCalls(entryId, headerRight)[i].args,
             save   |-> Len(saves) + 1,
             status |-> "pending"]]
    /\ lastTagCall' = None
    /\ alert' = onSaveAlert(entryId, headerRight)
    /\ consoleError' = FALSE
    /\ unhandledRejection' = FALSE
    /\ UNCHANGED <<entryId, draftVars, headerRight, tagModalVisible, showDatePicker,
                   loading, phase, readState, edits>>

\* the awaited storage call resolves: onSave navigates
SaveResolve(c) ==
    /\ calls[c].status = "pending"
    /\ calls' = [calls EXCEPT ![c].status = "ok"]
    /\ saves' = [saves EXCEPT ![calls[c].save].navigated = TRUE]
    /\ Quiet
    /\ UNCHANGED <<entryId, draftVars, headerRight, tagModalVisible, showDatePicker,
                   loading, phase, readState, edits>>

\* a rejection handler that logs and navigates all the same
SaveRejectNavigates(c) ==
    /\ calls[c].status = "pending"
    /\ calls' = [calls EXCEPT ![c].status = "failed"]
    /\ saves' = [saves EXCEPT ![calls[c].save].navigated = TRUE]
    /\ lastTagCall' = None
    /\ alert' = "none"
    /\ consoleError' = TRUE
    /\ unhandledRejection' = FALSE
    /\ UNCHANGED <<entryId, draftVars, headerRight, tagModalVisible, showDatePicker,
                   loading, phase, readState, edits>>

\* the awaited storage call rejects: the catch block logs
SaveReject(c) ==
    /\ calls[c].status = "pending"
    /\ calls' = [calls EXCEPT ![c].status = "failed"]
    /\ lastTagCall' = None
    /\ alert' = "none"
    /\ consoleError' = TRUE
    /\ unhandledRejection' = FALSE
    /\ UNCHANGED <<entryId, draftVars, headerRight, tagModalVisible, showDatePicker,
                   loading, phase, readState, saves, edits>>

----------------------------------------------------------------------------
(* The editor *)

\* a user edit of the draft, counted against the edit budget
UserEdit(A) == edits < MaxEdits /\ A /\ edits' = edits + 1

Next ==
    \/ Mount
    \/ \E entry \in Opt(StoredEntries) : ReadResolve(entry)
    \/ ReadReject
    \/ \E text \in Titles : UserEdit(SetTitle(text))
    \/ \E text \in Bodies : UserEdit(SetBody(text))
    \/ OpenDatePicker
    \/ \E selectedDate \in Opt(Dates) : UserEdit(DateChange(selectedDate))
    \/ OpenTagModal
    \/ CloseTagModal
    \/ \E tag \in EditorTagInputs : UserEdit(addTag(tag))
    \/ \E tag \in EditorTagInputs : UserEdit(deleteTag(tag))
    \/ onSave
    \/ \E c \in 1..Len(calls) : SaveResolve(c)
    \/ \E c \in 1..Len(calls) : SaveReject(c)

Spec == Init /\ [][Next]_vars

----------------------------------------------------------------------------
(* The tag list alone: a shown form with no identifier, any duplicate-free *)
(* starting list, any strings handed to addTag and deleteTag.              *)

InitTags ==
    /\ entryId = NULL
    /\ date \in Now
    /\ title = <<>>
    /\ body = <<>>
    /\ tags \in InitialTagLists
    /\ tagModalVisible = FALSE
    /\ showDatePicker = FALSE
    /\ loading = FALSE
    /\ phase = "mounted"
    /\ headerRight = Draft
    /\ readState = "none"
    /\ saves = <<>>
    /\ calls = <<>>
    /\ edits = 0
    /\ lastTagCall = None
    /\ alert = "none"
    /\ consoleError = FALSE
    /\ unhandledRejection = FALSE

NextTags ==
    \/ OpenTagModal
    \/ \E tag \in TagInputs : addTag(tag) /\ UNCHANGED edits
    \/ \E tag \in TagInputs : deleteTag(tag) /\ UNCHANGED edits

TagSpec == InitTags /\ [][NextTags]_vars

----------------------------------------------------------------------------
(* Properties *)

\* every character of the text is white space
Blank(text) == \A i \in 1..Len(text) : text[i] = " "

\* the storage calls issued by the s-th invocation of onSave
CallsOf(s) == {c \in 1..Len(calls) : calls[c].save = s}

\* what the storage collaborator should receive for draft d
Sent(d) == [date |-> toISOString(d.date), title |-> d.title, body |-> d.body, tags |-> d.tags]

\* C1: the tag sequence never holds two equal values.
C1_NoDuplicateTags ==
    \A i, j \in 1..Len(tags) : i # j => tags[i] # tags[j]

C2_Aborted(s) ==
    /\ CallsOf(s) = {}
    /\ saves[s].alert = "Please enter a journal entry"
    /\ ~saves[s].navigated

\* C2: a save with no identifier and a blank body issues no storage call, alerts
\* the user, never navigates, and leaves date, title, body and tags as they were.
C2_BlankCreateAborts ==
    /\ [](\A s \in 1..Len(saves) :
            (entryId = NULL /\ Blank(saves[s].draft.body)) => C2_Aborted(s))
    /\ [][(Len(saves') = Len(saves) + 1 /\ entryId = NULL /\ Blank(body))
            => (Draft' = Draft /\ alert' = "Please enter a journal entry"
                /\ Len(calls') = Len(calls))]_vars

C2_Witness ==
    /\ entryId = NULL
    /\ Len(saves) = 1
    /\ saves[1].draft.body = <<" ", " ">>
    /\ alert = "Please enter a journal entry"
    /\ calls = <<>>

\* C3: with an identifier, every save issues exactly one update call, carrying
\* that identifier and the draft on screen, blank body or not, and no create call.
C3_UpdateOnly ==
    entryId # NULL =>
        /\ \A c \in 1..Len(calls) : calls[c].op = "update"
        /\ \A s \in 1..Len(saves) :
             /\ Cardinality(CallsOf(s)) = 1
             /\ \A c \in CallsOf(s) :
                  calls[c].args = [id    |-> entryId,
                                   date  |-> toISOString(saves[s].draft.date),
                                   title |-> saves[s].draft.title,
                                   body  |-> saves[s].draft.body,
                                   tags  |-> saves[s].draft.tags]

C3_Witness ==
    /\ entryId # NULL
    /\ readState = "done"
    /\ \E s \in 1..Len(saves) :
         /\ saves[s].draft.body = <<" ", " ">>
         /\ saves[s].draft.tags # <<>>
         /\ \E c \in CallsOf(s) : calls[c].op = "update" /\ calls[c].status = "ok"

\* C4 as stated: with no identifier and a non-empty body, one save yields
\* exactly one create call carrying the draft on screen.  A body of blanks only
\* is non-empty, and onSave alerts and returns on it.
C4_CreateOnceNonEmpty ==
    (entryId = NULL /\ Len(saves) = 1 /\ saves[1].draft.body # <<>>) =>
        /\ Len(calls) = 1
        /\ calls[1].op = "create"
        /\ calls[1].args = Sent(saves[1].draft)

\* C4, amended: with no identifier and a body that is not blank (it holds a
\* character other than white space), one save yields exactly one create call,
\* whose date, title, body and tags are those of the draft on screen when save
\* was invoked.
C4_CreateOnce ==
    (entryId = NULL /\ Len(saves) = 1 /\ ~Blank(saves[1].draft.body)) =>
        /\ Len(calls) = 1
        /\ calls[1].op = "create"
        /\ calls[1].args = Sent(saves[1].draft)

C4_Witness ==
    /\ entryId = NULL
    /\ Len(saves) = 1
    /\ saves[1].draft.body = <<" ", "x">>
    /\ saves[1].draft.tags = << <<"x">> >>
    /\ Len(calls) = 1
    /\ calls[1].status = "ok"

C5_NavigatedIffOk ==
    \A s \in 1..Len(saves) :
        saves[s].navigated <=> \E c \in CallsOf(s) : calls[c].status = "ok"

C5_RetryPossible ==
    ((\E c \in 1..Len(calls) : calls[c].status = "failed")
        /\ ~Navigated /\ Len(saves) < MaxSaves) => ENABLED onSave

C5_FailureStep ==
    \A c \in 1..Len(calls) :
        (calls[c].status = "pending" /\ calls'[c].status = "failed") =>
            /\ Draft' = Draft
            /\ saves' = saves
            /\ Len(calls') = Len(calls)
            /\ consoleError'

\* C5: a save navigates exactly when its storage call succeeded; a failed call
\* leaves the draft alone, navigates nowhere, issues no further call, is logged,
\* and save can be invoked again.
C5_CompletionIffSuccess ==
    /\ [](C5_NavigatedIffOk /\ C5_RetryPossible)
    /\ [][C5_FailureStep]_vars

C5_Witness ==
    \E c1, c2 \in 1..Len(calls) :
        /\ c1 < c2
        /\ calls[c1].status = "failed"
        /\ ~saves[calls[c1].save].navigated
        /\ calls[c2].status = "ok"
        /\ saves[calls[c2].save].navigated

\* C6: no failure of the storage collaborator leaves the editor unhandled.
C6_FailuresCaught == ~unhandledRejection

\* C7: opened with an identifier, the editor shows the loading state for as long
\* as the read is in flight; opened without one, it issues no read.
C7_LoadingWhileReading ==
    /\ (entryId # NULL /\ readState = "pending") => loading
    /\ entryId = NULL => readState = "none"

\* C8: addTag leaves the sequence alone when the trimmed value is empty; when it
\* accepts the value it appends exactly the trimmed value behind the tags that
\* were there.
C8_AddTagAppendsTrimmed ==
    (lastTagCall # None /\ lastTagCall[1].op = "addTag") =>
        LET tag  == lastTagCall[1].arg
            prev == lastTagCall[1].prevTags
        IN  IF trim(tag) = <<>>
            THEN tags = prev
            ELSE \/ alert = "Tag already exists" /\ tags = prev
                 \/ alert = "none" /\ tags = Append(prev, trim(tag))

C8_Witness ==
    /\ lastTagCall # None
    /\ lastTagCall[1] = [op |-> "addTag", arg |-> <<" ", "x", " ">>,
                         prevTags |-> << <<"x", "x">> >>]
    /\ tags = << <<"x", "x">>, <<"x">> >>

\* C9: no update call is issued while the read of the load is in flight.
C9_NoUpdateWhileReading ==
    readState = "pending" => \A c \in 1..Len(calls) : calls[c].op # "update"

\* C10: before the editor navigates, at most one create call is in flight or done.
C10_AtMostOneCreate ==
    ~Navigated =>
        Cardinality({c \in 1..Len(calls) :
                        calls[c].op = "create" /\ calls[c].status # "failed"}) <= 1

=============================================================================
